---- MODULE Spec2Model ----
(***************************************************************************)
(* Model of the parsing and storage core of code2test.py:                  *)
(*   store_test_files          (the path-safe materializer)                *)
(*   parse_analysis_response   (the structured-data extractor)             *)
(*   parse_generation_response (the multi-file response parser)            *)
(* Text is modelled as a sequence of one-character strings, so that the    *)
(* path and pattern functions are computed the way the library computes    *)
(* them (posixpath, POSIX separators).                                     *)
(***************************************************************************)
EXTENDS Integers, Sequences, FiniteSets, TLC

VARIABLES
  \* ---- store_test_files
  pc,            \* position in store_test_files: start, mkroot, loop, done, exit
  files,         \* the files argument: sequence of [path, content], keys unique
  clear_output,  \* the clear_output argument
  idx,           \* position of the for loop in files.items()
  files_written, \* the counter of line 672
  dirs,          \* file system: the directories (physical paths)
  fcontent,      \* file system: physical path of a regular file -> its content
  links,         \* file system: lexical paths that are symbolic links to OutsideDir
  wlog,          \* history: every file creation/overwrite, lexical and physical path
  outcome,       \* history: per entry of this call, what the loop body did
  run,           \* which call of store_test_files this is (1 or 2)
  faults,        \* number of environment faults (I/O errors) injected so far
  snap,          \* file contents and outcome at the end of the first call
  \* ---- parse_analysis_response
  response_text, \* the argument
  apc,           \* position in parse_analysis_response
  analysis_plan, \* the value returned (Python None included)
  tried,         \* history: the strategies that called json.loads, in order
  raised,        \* an exception left parse_analysis_response
  origin,        \* history: how response_text was built (value, fence, text around)
  \* ---- parse_generation_response
  response,          \* the argument
  gpc,               \* position in parse_generation_response: scan, report, done
  lineno,            \* position of the for loop in response.strip().split('\n')
  current_path,      \* the path of the file being read, NoPath for Python None
  current_content,   \* the lines buffered for current_path
  generated_files,   \* the dict named files: sequence of [path, body] in insertion order
  warned,            \* the warning of line 392 was printed
  \* ---- parse_validation_response
  vresponse,         \* the argument (named response in the source)
  vpc,               \* position in parse_validation_response: report, section, scan, done
  validation_report, \* the report returned (Python None included)
  file_section,      \* the part of the reply scanned for files
  vlineno,           \* position of the for loop in file_section.strip().split('\n')
  vcurrent_path,     \* current_path of this function, NoPath for Python None
  vcurrent_content,  \* current_content of this function
  validated_files,   \* the dict named files: sequence of [path, body] in insertion order
  \* ---- main
  mpc,               \* position in main: analyse, generate, validate, ask, store, done, exit,
                     \*   crash
  args,              \* the command line: [skip_validation]
  replies,           \* what the agents and the parsers give main: [plan, generated,
                     \*   answered, report, issues_found, issues, validated]
  generated,         \* main's generated_files
  final_files,       \* the set handed to store_test_files
  merged             \* history: final_files.update(validated_files) was executed

storeVars == <<pc, files, clear_output, idx, files_written, dirs, fcontent, links,
               wlog, outcome, run, faults, snap>>

extractVars == <<response_text, apc, analysis_plan, tried, raised, origin>>

genVars == <<response, gpc, lineno, current_path, current_content, generated_files, warned>>

valVars == <<vresponse, vpc, validation_report, file_section, vlineno, vcurrent_path,
             vcurrent_content, validated_files>>

mainVars == <<mpc, args, replies, generated, final_files, merged>>

vars == <<storeVars, extractVars, genVars, valVars, mainVars>>

\* what an action of one function leaves alone: the state of the others
notStore == <<extractVars, genVars, valVars, mainVars>>
notExtract == <<storeVars, genVars, valVars, mainVars>>
notGen == <<storeVars, extractVars, valVars, mainVars>>
notVal == <<storeVars, extractVars, genVars, mainVars>>
notMain == <<storeVars, extractVars, genVars, valVars>>

\* ------------------------------------------------------------------ bounds
MaxPathLen == 3      \* every path of at most this many characters is tried
MaxFiles == 2        \* entries in the files mapping
MaxFaults == 1       \* environment faults injected in one behaviour
MaxDepth == 2        \* nesting depth of the structured values
MaxTextLen == 3      \* every text of at most this many characters (of TextChars) is tried
MaxLines == 3        \* lines in the text given to parse_generation_response
MaxChunks == 3       \* parts (lines, fenced blocks) of the text given to parse_validation_response

\* ------------------------------------------------------------------ strings
StartsWith(s, p) == Len(s) >= Len(p) /\ SubSeq(s, 1, Len(p)) = p

RECURSIVE SplitAcc(_, _, _)
SplitAcc(s, sep, cur) ==
  IF s = <<>> THEN <<cur>>
  ELSE IF Head(s) = sep THEN <<cur>> \o SplitAcc(Tail(s), sep, <<>>)
  ELSE SplitAcc(Tail(s), sep, Append(cur, Head(s)))

\* str.split(sep) for a one-character separator
Split(s, sep) == SplitAcc(s, sep, <<>>)

RECURSIVE JoinWith(_, _)
\* sep.join(comps)
JoinWith(comps, sep) ==
  IF comps = <<>> THEN <<>>
  ELSE IF Len(comps) = 1 THEN comps[1]
  ELSE comps[1] \o <<sep>> \o JoinWith(Tail(comps), sep)

Whitespace == {" ", "\n"}

\* str.isspace(): non-empty and only whitespace
IsSpace(s) == s # <<>> /\ \A k \in 1..Len(s) : s[k] \in Whitespace

\* ------------------------------------------------------------------ posixpath
Sep == "/"
Dot == <<".">>
DotDot == <<".", ".">>

\* posixpath.normpath: the number of leading slashes kept (0, 1 or 2)
InitialSlashes(path) ==
  IF ~StartsWith(path, <<Sep>>) THEN 0
  ELSE IF StartsWith(path, <<Sep, Sep>>) /\ ~StartsWith(path, <<Sep, Sep, Sep>>) THEN 2
  ELSE 1

RECURSIVE CollapseDropsLeadingParent(_, _, _)
\* mutant of Collapse: a leading ".." of a relative path is dropped, not kept
CollapseDropsLeadingParent(comps, new_comps, slashes) ==
  IF comps = <<>> THEN new_comps
  ELSE LET comp == Head(comps)
           rest == Tail(comps)
       IN IF comp = <<>> \/ comp = Dot
          THEN CollapseDropsLeadingParent(rest, new_comps, slashes)
          ELSE IF comp # DotDot
               THEN CollapseDropsLeadingParent(rest, Append(new_comps, comp), slashes)
          ELSE IF new_comps # <<>>
               THEN CollapseDropsLeadingParent(rest, SubSeq(new_comps, 1, Len(new_comps) - 1),
                                               slashes)
          ELSE CollapseDropsLeadingParent(rest, new_comps, slashes)

RECURSIVE Collapse(_, _, _)
\* posixpath.normpath: the loop over the components
Collapse(comps, new_comps, slashes) ==
  IF comps = <<>> THEN new_comps
  ELSE LET comp == Head(comps)
           rest == Tail(comps)
       IN IF comp = <<>> \/ comp = Dot THEN Collapse(rest, new_comps, slashes)
          ELSE IF \/ comp # DotDot
                  \/ (slashes = 0 /\ new_comps = <<>>)
                  \/ (new_comps # <<>> /\ new_comps[Len(new_comps)] = DotDot)
               THEN Collapse(rest, Append(new_comps, comp), slashes)
          ELSE IF new_comps # <<>>
               THEN Collapse(rest, SubSeq(new_comps, 1, Len(new_comps) - 1), slashes)
          ELSE Collapse(rest, new_comps, slashes)

\* os.path.normpath
NormPath(path) ==
  IF path = <<>> THEN Dot
  ELSE LET slashes == InitialSlashes(path)
           joined == JoinWith(Collapse(Split(path, Sep), <<>>, slashes), Sep)
           res == [k \in 1..slashes |-> Sep] \o joined
       IN IF res = <<>> THEN Dot ELSE res

\* os.path.isabs
IsAbs(path) == StartsWith(path, <<Sep>>)

\* os.path.join(a, b)
PathJoin(a, b) ==
  IF StartsWith(b, <<Sep>>) THEN b
  ELSE IF a = <<>> \/ a[Len(a)] = Sep THEN a \o b
  ELSE a \o <<Sep>> \o b

\* os.path.abspath of a path; the working directory is the file system root
AbsPath(path) == IF IsAbs(path) THEN NormPath(path) ELSE NormPath(PathJoin(<<Sep>>, path))

RECURSIVE RStripSep(_)
RStripSep(s) == IF s # <<>> /\ s[Len(s)] = Sep THEN RStripSep(SubSeq(s, 1, Len(s) - 1)) ELSE s

\* index of the last separator of s, 0 when there is none (str.rfind + 1)
LastSep(s) ==
  LET ks == {k \in 1..Len(s) : s[k] = Sep}
  IN IF ks = {} THEN 0 ELSE CHOOSE k \in ks : \A j \in ks : j <= k

\* os.path.dirname
DirName(p) ==
  LET head == SubSeq(p, 1, LastSep(p))
  IN IF head # <<>> /\ \E k \in 1..Len(head) : head[k] # Sep THEN RStripSep(head) ELSE head

\* ------------------------------------------------------------------ file system
FsRoot == <<Sep>>
output_dir == <<Sep, "r">>        \* the output_dir argument (an absolute path)
OutsideDir == <<Sep, "o">>        \* a directory that is not under output_dir
Truncated == <<>>                 \* the content of a file opened for writing and not written
OldContent == <<0>>               \* the content of a file that was there before the call

\* the lexical paths p, p's parent, ... that end at a component boundary of p
CompPrefixes(p) ==
  {SubSeq(p, 1, k) : k \in {j \in 1..Len(p) : (j = Len(p) \/ p[j + 1] = Sep) /\ p[j] # Sep}}

Under(p, d) == p = d \/ StartsWith(p, d \o <<Sep>>)

\* the physical path the kernel reaches for lexical path p (symbolic links followed)
Resolve(p, ln) ==
  LET hit == {q \in ln : Under(p, q)}
  IN IF hit = {} THEN p
     ELSE LET q == CHOOSE q \in hit : \A o \in hit : Len(q) <= Len(o)
          IN OutsideDir \o SubSeq(p, Len(q) + 1, Len(p))

\* os.path.exists
Exists(p, d, fc, ln) == Resolve(p, ln) \in d \/ Resolve(p, ln) \in DOMAIN fc

\* os.makedirs(p): the directories it has to create
Missing(p, d, fc, ln) == {q \in CompPrefixes(p) : ~Exists(q, d, fc, ln)}

\* os.makedirs(p) raises because a component of p is a regular file
Blocked(p, fc, ln) == \E q \in CompPrefixes(p) : Resolve(q, ln) \in DOMAIN fc

\* the directories after a successful os.makedirs(p)
MakeDirs(p, d, fc, ln) == d \cup {Resolve(q, ln) : q \in Missing(p, d, fc, ln)}

\* open(p, 'w') succeeds: p is no directory and its parent is one
CanOpen(p, d, ln) == Resolve(p, ln) \notin d /\ DirName(Resolve(p, ln)) \in d

\* shutil.rmtree(p): what is left (links are removed, never followed)
RmTreeDirs(p, d) == {q \in d : ~Under(q, p)}
RmTreeFiles(p, fc) == [q \in {f \in DOMAIN fc : ~Under(f, p)} |-> fc[q]]
RmTreeLinks(p, ln) == {q \in ln : ~Under(q, p)}

Range(s) == {s[k] : k \in 1..Len(s)}

\* ------------------------------------------------------------------ inputs
PathChars == {"a", Sep, "."}
ShortPaths == UNION {[1..n -> PathChars] : n \in 0..MaxPathLen}
ExamplePaths ==
  { <<" ">>,
    <<".", ".", "/", "s", "e", "c", "r", "e", "t">>,
    <<"/", "e", "t", "c", "/", "p", "a", "s", "s", "w", "d">>,
    <<"a", "/", ".", ".", "/", ".", ".", "/", "b">>,
    <<"a", "/", "b", "/", "c", ".", "t", "x", "t">>,
    <<"a", "/", ".", ".", "/", "b">>,
    <<"a", "/", "b">>,
    <<"a">>,
    <<"b">> }
Paths == ShortPaths \cup ExamplePaths

\* the content of the k-th entry
BodyOf(k) == <<k>>

\* the mappings of n entries with keys in P: keys are unique
Mappings(P, n) ==
  {[k \in 1..n |-> [path |-> ps[k], content |-> BodyOf(k)]] :
     ps \in {qs \in [1..n -> P] : \A i, j \in 1..n : i # j => qs[i] # qs[j]}}

\* the mappings store_test_files is called with: every path alone, and the example
\* paths together
FileSets ==
  {<<>>} \cup Mappings(Paths, 1) \cup UNION {Mappings(ExamplePaths, n) : n \in 2..MaxFiles}

\* ------------------------------------------------------------------ store_test_files
abs_output_dir == AbsPath(output_dir)

normalized_relative_path(rel) == NormPath(rel)

full_path(rel) == AbsPath(PathJoin(abs_output_dir, normalized_relative_path(rel)))

file_dir(rel) == DirName(full_path(rel))

\* the security check on the final path
InsideOutputDir(full) == StartsWith(full, abs_output_dir \o <<Sep>>) \/ full = abs_output_dir

\* mutant of Rejection: the parent-reference test and the security check are missing
RejectionNoSandbox(rel) ==
  IF rel = <<>> \/ IsSpace(rel) THEN "invalid"
  ELSE IF IsAbs(rel) THEN "absolute"
  ELSE "ok"

\* mutant of Rejection: the parent-reference test reads the raw path
RejectionOnRawPath(rel) ==
  IF rel = <<>> \/ IsSpace(rel) THEN "invalid"
  ELSE IF DotDot \in Range(Split(rel, Sep)) THEN "unsafe"
  ELSE IF IsAbs(normalized_relative_path(rel)) THEN "absolute"
  ELSE IF ~InsideOutputDir(full_path(rel)) THEN "outside"
  ELSE "ok"

\* the validation pipeline of one entry: the reason it is skipped, or "ok"
Rejection(rel) ==
  IF rel = <<>> \/ IsSpace(rel) THEN "invalid"
  ELSE IF DotDot \in Range(Split(normalized_relative_path(rel), Sep)) THEN "unsafe"
  ELSE IF IsAbs(normalized_relative_path(rel)) THEN "absolute"
  ELSE IF ~InsideOutputDir(full_path(rel)) THEN "outside"
  ELSE "ok"

\* the subdirectory of the entry has to be created
NeedsMkdir(rel) ==
  /\ file_dir(rel) # <<>>
  /\ file_dir(rel) # abs_output_dir
  /\ ~Exists(file_dir(rel), dirs, fcontent, links)

\* the directories once the subdirectory step of the entry has passed
DirsAfterMkdir(rel) ==
  IF NeedsMkdir(rel) THEN MakeDirs(file_dir(rel), dirs, fcontent, links) ELSE dirs

NoSnap == [fcontent |-> <<>>, dirs |-> {}, outcome |-> <<>>, files_written |-> 0]

InitFs ==
  \/ dirs = {FsRoot, OutsideDir} /\ fcontent = <<>> /\ links = {}
  \/ dirs = {FsRoot, OutsideDir, abs_output_dir} /\ fcontent = <<>> /\ links = {}
  \/ /\ dirs = {FsRoot, OutsideDir, abs_output_dir}
     /\ fcontent = <<>>
     /\ links = {abs_output_dir \o <<Sep, "a">>}
  \/ /\ dirs = {FsRoot, OutsideDir, abs_output_dir}
     /\ fcontent = (abs_output_dir \o <<Sep, "a">>) :> OldContent
     /\ links = {}

\* store_test_files is not running
StoreIdle ==
  /\ pc = "idle"
  /\ files = <<>>
  /\ clear_output = FALSE
  /\ idx = 1
  /\ files_written = 0
  /\ dirs = {}
  /\ fcontent = <<>>
  /\ links = {}
  /\ wlog = {}
  /\ outcome = <<>>
  /\ run = 1
  /\ faults = 0
  /\ snap = NoSnap

StoreInit ==
  /\ pc = "start"
  /\ files \in FileSets
  /\ clear_output \in BOOLEAN
  /\ idx = 1
  /\ files_written = 0
  /\ InitFs
  /\ wlog = {}
  /\ outcome = <<>>
  /\ run = 1
  /\ faults = 0
  /\ snap = NoSnap

CanFault == faults < MaxFaults

\* lines 656-661: clear the output directory when asked to; an error is only logged
ClearOutput ==
  /\ pc = "start"
  /\ pc' = "mkroot"
  /\ \/ /\ ~(clear_output /\ Exists(abs_output_dir, dirs, fcontent, links))
        /\ UNCHANGED <<dirs, fcontent, links, faults>>
     \/ /\ clear_output /\ Exists(abs_output_dir, dirs, fcontent, links)
        /\ dirs' = RmTreeDirs(abs_output_dir, dirs)
        /\ fcontent' = RmTreeFiles(abs_output_dir, fcontent)
        /\ links' = RmTreeLinks(abs_output_dir, links)
        /\ UNCHANGED faults
     \/ /\ clear_output /\ Exists(abs_output_dir, dirs, fcontent, links)
        /\ CanFault
        /\ faults' = faults + 1
        /\ \/ UNCHANGED <<dirs, fcontent, links>>
           \/ /\ dirs' = RmTreeDirs(abs_output_dir, dirs) \cup {abs_output_dir}
              /\ fcontent' = RmTreeFiles(abs_output_dir, fcontent)
              /\ links' = RmTreeLinks(abs_output_dir, links)
  /\ UNCHANGED <<files, clear_output, idx, files_written, wlog, outcome, run, snap>>
  /\ UNCHANGED notStore

\* mutant of EnsureOutputDir: the creation error is only logged and the loop is entered
EnsureOutputDirLogsOnly ==
  /\ pc = "mkroot"
  /\ pc' = "loop"
  /\ \/ /\ Exists(abs_output_dir, dirs, fcontent, links)
        /\ UNCHANGED <<dirs, faults>>
     \/ /\ ~Exists(abs_output_dir, dirs, fcontent, links)
        /\ dirs' = MakeDirs(abs_output_dir, dirs, fcontent, links)
        /\ UNCHANGED faults
     \/ /\ ~Exists(abs_output_dir, dirs, fcontent, links)
        /\ CanFault
        /\ faults' = faults + 1
        /\ UNCHANGED dirs
  /\ UNCHANGED <<files, clear_output, idx, files_written, fcontent, links, wlog, outcome,
                 run, snap>>
  /\ UNCHANGED notStore

\* lines 664-670: create the output directory; failing to is fatal (sys.exit(1))
EnsureOutputDir ==
  /\ pc = "mkroot"
  /\ \/ /\ Exists(abs_output_dir, dirs, fcontent, links)
        /\ pc' = "loop"
        /\ UNCHANGED <<dirs, faults>>
     \/ /\ ~Exists(abs_output_dir, dirs, fcontent, links)
        /\ pc' = "loop"
        /\ dirs' = MakeDirs(abs_output_dir, dirs, fcontent, links)
        /\ UNCHANGED faults
     \/ /\ ~Exists(abs_output_dir, dirs, fcontent, links)
        /\ CanFault
        /\ faults' = faults + 1
        /\ pc' = "exit"
        /\ UNCHANGED dirs
  /\ UNCHANGED <<files, clear_output, idx, files_written, fcontent, links, wlog, outcome,
                 run, snap>>
  /\ UNCHANGED notStore

InLoop == pc = "loop" /\ idx <= Len(files)

\* mutant of SkipEntry: a rejected entry ends the loop (break instead of continue)
SkipEntryBreaks ==
  /\ pc = "loop" /\ idx <= Len(files)
  /\ Rejection(files[idx].path) # "ok"
  /\ outcome' = Append(outcome, Rejection(files[idx].path))
  /\ idx' = idx + 1
  /\ pc' = "done"
  /\ UNCHANGED <<files, clear_output, files_written, dirs, fcontent, links, wlog, run,
                 faults, snap>>
  /\ UNCHANGED notStore

\* lines 674-695: the entry is skipped by the validation pipeline
SkipEntry ==
  /\ InLoop
  /\ Rejection(files[idx].path) # "ok"
  /\ outcome' = Append(outcome, Rejection(files[idx].path))
  /\ idx' = idx + 1
  /\ UNCHANGED <<pc, files, clear_output, files_written, dirs, fcontent, links, wlog, run,
                 faults, snap>>
  /\ UNCHANGED notStore

\* lines 697-704: os.makedirs of the subdirectory raises OSError; the entry is skipped
MkdirError ==
  /\ InLoop
  /\ Rejection(files[idx].path) = "ok"
  /\ NeedsMkdir(files[idx].path)
  /\ \/ /\ Blocked(file_dir(files[idx].path), fcontent, links)
        /\ UNCHANGED <<dirs, faults>>
     \/ /\ ~Blocked(file_dir(files[idx].path), fcontent, links)
        /\ CanFault
        /\ faults' = faults + 1
        /\ \E made \in SUBSET Missing(file_dir(files[idx].path), dirs, fcontent, links) :
             /\ made # Missing(file_dir(files[idx].path), dirs, fcontent, links)
             /\ \A q \in made : \A o \in Missing(file_dir(files[idx].path), dirs, fcontent, links) :
                  Len(o) < Len(q) => o \in made
             /\ dirs' = dirs \cup {Resolve(q, links) : q \in made}
  /\ outcome' = Append(outcome, "mkdir_error")
  /\ idx' = idx + 1
  /\ UNCHANGED <<pc, files, clear_output, files_written, fcontent, links, wlog, run, snap>>
  /\ UNCHANGED notStore

\* the subdirectory step of the entry passes (nothing to create, or created)
MkdirPasses(rel) == NeedsMkdir(rel) => ~Blocked(file_dir(rel), fcontent, links)

\* what is at physical path p, nothing when there is no file
ContentAt(p, fc) == IF p \in DOMAIN fc THEN fc[p] ELSE <<>>

\* mutant of WriteFile: the file is opened for appending, not for overwriting
WriteFileAppends ==
  /\ pc = "loop" /\ idx <= Len(files)
  /\ Rejection(files[idx].path) = "ok"
  /\ NeedsMkdir(files[idx].path) => ~Blocked(file_dir(files[idx].path), fcontent, links)
  /\ CanOpen(full_path(files[idx].path), DirsAfterMkdir(files[idx].path), links)
  /\ dirs' = DirsAfterMkdir(files[idx].path)
  /\ fcontent' = (Resolve(full_path(files[idx].path), links) :>
                    (ContentAt(Resolve(full_path(files[idx].path), links), fcontent)
                       \o files[idx].content)) @@ fcontent
  /\ wlog' = wlog \cup {[path |-> full_path(files[idx].path),
                         phys |-> Resolve(full_path(files[idx].path), links)]}
  /\ files_written' = files_written + 1
  /\ outcome' = Append(outcome, "written")
  /\ idx' = idx + 1
  /\ UNCHANGED <<pc, files, clear_output, links, run, faults, snap>>
  /\ UNCHANGED notStore

\* mutant of WriteFile: a file that is already there is left as it is
WriteFileKeepsExisting ==
  /\ pc = "loop" /\ idx <= Len(files)
  /\ Rejection(files[idx].path) = "ok"
  /\ MkdirPasses(files[idx].path)
  /\ CanOpen(full_path(files[idx].path), DirsAfterMkdir(files[idx].path), links)
  /\ dirs' = DirsAfterMkdir(files[idx].path)
  /\ fcontent' = fcontent @@ (Resolve(full_path(files[idx].path), links) :> files[idx].content)
  /\ wlog' = wlog \cup {[path |-> full_path(files[idx].path),
                         phys |-> Resolve(full_path(files[idx].path), links)]}
  /\ files_written' = files_written + 1
  /\ outcome' = Append(outcome, "written")
  /\ idx' = idx + 1
  /\ UNCHANGED <<pc, files, clear_output, links, run, faults, snap>>
  /\ UNCHANGED notStore

\* lines 706-710: the file is written
WriteFile ==
  /\ InLoop
  /\ Rejection(files[idx].path) = "ok"
  /\ MkdirPasses(files[idx].path)
  /\ CanOpen(full_path(files[idx].path), DirsAfterMkdir(files[idx].path), links)
  /\ dirs' = DirsAfterMkdir(files[idx].path)
  /\ fcontent' = (Resolve(full_path(files[idx].path), links) :> files[idx].content) @@ fcontent
  /\ wlog' = wlog \cup {[path |-> full_path(files[idx].path),
                         phys |-> Resolve(full_path(files[idx].path), links)]}
  /\ files_written' = files_written + 1
  /\ outcome' = Append(outcome, "written")
  /\ idx' = idx + 1
  /\ UNCHANGED <<pc, files, clear_output, links, run, faults, snap>>
  /\ UNCHANGED notStore

\* mutant of WriteError: a failed write is counted as a written file
WriteErrorCounts ==
  /\ pc = "loop" /\ idx <= Len(files)
  /\ Rejection(files[idx].path) = "ok"
  /\ MkdirPasses(files[idx].path)
  /\ dirs' = DirsAfterMkdir(files[idx].path)
  /\ \/ /\ ~CanOpen(full_path(files[idx].path), DirsAfterMkdir(files[idx].path), links)
        /\ UNCHANGED <<fcontent, wlog, faults>>
     \/ /\ CanOpen(full_path(files[idx].path), DirsAfterMkdir(files[idx].path), links)
        /\ CanFault
        /\ faults' = faults + 1
        /\ \/ UNCHANGED <<fcontent, wlog>>
           \/ /\ fcontent' = (Resolve(full_path(files[idx].path), links) :> Truncated) @@ fcontent
              /\ wlog' = wlog \cup {[path |-> full_path(files[idx].path),
                                     phys |-> Resolve(full_path(files[idx].path), links)]}
  /\ outcome' = Append(outcome, "write_error")
  /\ files_written' = files_written + 1
  /\ idx' = idx + 1
  /\ UNCHANGED <<pc, files, clear_output, links, run, snap>>
  /\ UNCHANGED notStore

\* lines 711-712: open or write raises; the error is logged and the loop goes on
WriteError ==
  /\ InLoop
  /\ Rejection(files[idx].path) = "ok"
  /\ MkdirPasses(files[idx].path)
  /\ dirs' = DirsAfterMkdir(files[idx].path)
  /\ \/ /\ ~CanOpen(full_path(files[idx].path), DirsAfterMkdir(files[idx].path), links)
        /\ UNCHANGED <<fcontent, wlog, faults>>
     \/ /\ CanOpen(full_path(files[idx].path), DirsAfterMkdir(files[idx].path), links)
        /\ CanFault
        /\ faults' = faults + 1
        /\ \/ UNCHANGED <<fcontent, wlog>>
           \/ /\ fcontent' = (Resolve(full_path(files[idx].path), links) :> Truncated) @@ fcontent
              /\ wlog' = wlog \cup {[path |-> full_path(files[idx].path),
                                     phys |-> Resolve(full_path(files[idx].path), links)]}
  /\ outcome' = Append(outcome, "write_error")
  /\ idx' = idx + 1
  /\ UNCHANGED <<pc, files, clear_output, files_written, links, run, snap>>
  /\ UNCHANGED notStore

\* line 714: the loop is over
Finish ==
  /\ pc = "loop"
  /\ idx > Len(files)
  /\ pc' = "done"
  /\ UNCHANGED <<files, clear_output, idx, files_written, dirs, fcontent, links, wlog,
                 outcome, run, faults, snap>>
  /\ UNCHANGED notStore

\* store_test_files is called again with the same arguments
CallAgain ==
  /\ pc = "done"
  /\ run = 1
  /\ run' = 2
  /\ snap' = [fcontent |-> fcontent, dirs |-> dirs, outcome |-> outcome,
              files_written |-> files_written]
  /\ pc' = "start"
  /\ idx' = 1
  /\ files_written' = 0
  /\ outcome' = <<>>
  /\ UNCHANGED <<files, clear_output, dirs, fcontent, links, wlog, faults>>
  /\ UNCHANGED notStore

StoreNext ==
  \/ ClearOutput
  \/ EnsureOutputDir
  \/ SkipEntry
  \/ MkdirError
  \/ WriteFile
  \/ WriteError
  \/ Finish
  \/ CallAgain


\* ------------------------------------------------------------------ claims on store_test_files
\* what a lexical path leads to on disk
IsDirAt(p, d, ln) == Resolve(p, ln) \in d
IsFileAt(p, fc, ln) == Resolve(p, ln) \in DOMAIN fc

RECURSIVE EscapesFrom(_, _)
\* walking the components from a directory at the given depth under the start
\* directory, the walk steps above the start directory
EscapesFrom(comps, depth) ==
  IF comps = <<>> THEN FALSE
  ELSE IF Head(comps) = <<>> \/ Head(comps) = Dot THEN EscapesFrom(Tail(comps), depth)
  ELSE IF Head(comps) = DotDot
       THEN (depth = 0 \/ EscapesFrom(Tail(comps), depth - 1))
  ELSE EscapesFrom(Tail(comps), depth + 1)

ParentEscaping(rel) == ~IsAbs(rel) /\ EscapesFrom(Split(rel, Sep), 0)

\* a relative path of two or more plain names
PlainNested(rel) ==
  /\ Len(Split(rel, Sep)) >= 2
  /\ \A k \in 1..Len(Split(rel, Sep)) :
       /\ Split(rel, Sep)[k] \notin {<<>>, Dot, DotDot}
       /\ ~IsSpace(Split(rel, Sep)[k])

SecretPath == <<".", ".", "/", "s", "e", "c", "r", "e", "t">>
PasswdPath == <<"/", "e", "t", "c", "/", "p", "a", "s", "s", "w", "d">>
NestedPath == <<"a", "/", "b", "/", "c", ".", "t", "x", "t">>
ThroughLinkPath == <<"a", "/", "b">>

C2_NoWriteThroughLink ==
  \A w \in wlog : Under(w.phys, abs_output_dir)

\* C3: an entry whose path is parent-escaping or absolute is skipped and no file or
\* directory is created for it; a plain nested relative path that no existing file or
\* directory obstructs is written under the output directory, its missing intermediate
\* directories created (when the step meets no I/O error).
C3_SandboxRejection ==
  [][InLoop =>
       /\ (ParentEscaping(files[idx].path) \/ IsAbs(files[idx].path)) =>
            /\ dirs' = dirs
            /\ fcontent' = fcontent
            /\ wlog' = wlog
            /\ outcome' \in {Append(outcome, "unsafe"), Append(outcome, "absolute")}
       /\ ( /\ PlainNested(files[idx].path)
            /\ ~Blocked(PathJoin(abs_output_dir, files[idx].path), fcontent, links)
            /\ ~IsDirAt(PathJoin(abs_output_dir, files[idx].path), dirs, links)
            /\ faults' = faults ) =>
            /\ outcome' = Append(outcome, "written")
            /\ IsFileAt(PathJoin(abs_output_dir, files[idx].path), fcontent', links')
            /\ fcontent'[Resolve(PathJoin(abs_output_dir, files[idx].path), links')]
                 = files[idx].content
            /\ \A q \in CompPrefixes(DirName(PathJoin(abs_output_dir, files[idx].path))) :
                 IsDirAt(q, dirs', links')
  ]_vars

C3_Witness ==
  /\ pc = "done"
  /\ run = 1
  /\ Len(files) = 2
  /\ files[1].path = PasswdPath
  /\ files[2].path = NestedPath
  /\ outcome = <<"absolute", "written">>
  /\ dirs = {FsRoot, OutsideDir, abs_output_dir, abs_output_dir \o <<Sep, "a">>,
             abs_output_dir \o <<Sep, "a", Sep, "b">>}
  /\ DOMAIN fcontent = {PathJoin(abs_output_dir, NestedPath)}

\* the entry's target is obstructed: it is a directory, or a component of it is a file
Obstructed(rel) ==
  \/ IsDirAt(full_path(rel), dirs, links)
  \/ Blocked(file_dir(rel), fcontent, links)

C5_RootFailureFatal ==
  /\ pc = "exit" => (outcome = <<>> /\ files_written = 0 /\ idx = 1
                        /\ ~Exists(abs_output_dir, dirs, fcontent, links))
  /\ Len(outcome) > 0 => pc \in {"loop", "done"}
  /\ pc \in {"loop", "done"} => Exists(abs_output_dir, dirs, fcontent, links)

C5_Witness ==
  /\ pc = "exit"
  /\ run = 1
  /\ Len(files) = 2
  /\ Rejection(files[1].path) = "ok"
  /\ DOMAIN fcontent = {}

\* C6: calling store_test_files twice in a row with the same mapping and output
\* directory leaves the file contents the first call left, and the second call writes
\* every entry the first call wrote (no I/O error injected).
C6_Idempotent ==
  (run = 2 /\ pc = "done" /\ faults = 0) =>
    /\ fcontent = snap.fcontent
    /\ dirs = snap.dirs
    /\ \A k \in 1..Len(files) : snap.outcome[k] = "written" => outcome[k] = "written"
    /\ files_written = snap.files_written

C6_Witness ==
  /\ run = 2
  /\ pc = "done"
  /\ faults = 0
  /\ Len(files) = 2
  /\ outcome = <<"written", "written">>
  /\ snap.outcome = <<"written", "written">>

\* the classifications the loop body can give an entry: written, or skipped for a reason
Classes == {"written", "invalid", "unsafe", "absolute", "outside", "mkdir_error", "write_error"}

\* the entries of the call classified as written so far
WrittenEntries == {k \in 1..Len(outcome) : outcome[k] = "written"}

\* the loop body has handled entry idx in this step
HandlesEntry == pc = "loop" /\ idx <= Len(files) /\ idx' = idx + 1

\* the step has put the body of entry idx on disk, at the place its path leads to
BodyWritten ==
  /\ Rejection(files[idx].path) = "ok"
  /\ Resolve(full_path(files[idx].path), links) \in DOMAIN fcontent'
  /\ fcontent'[Resolve(full_path(files[idx].path), links)] = files[idx].content
  /\ [path |-> full_path(files[idx].path),
      phys |-> Resolve(full_path(files[idx].path), links)] \in wlog'

\* the step has left the files alone, or has left the target opened and empty
BodyNotWritten ==
  \/ fcontent' = fcontent
  \/ /\ Rejection(files[idx].path) = "ok"
     /\ fcontent' = (Resolve(full_path(files[idx].path), links) :> Truncated) @@ fcontent

HasParentSegment(path) == DotDot \in Range(Split(path, Sep))

\* the entry's parent references collapse inside the root: the raw path has one, the
\* normalized path has none and is a relative path below the root
CollapsesInside(rel) ==
  /\ HasParentSegment(rel)
  /\ ~HasParentSegment(NormPath(rel))
  /\ ~IsAbs(NormPath(rel))
  /\ NormPath(rel) # Dot

\* C24: the parent-reference test reads the normalized path, not the raw one: an entry
\* is rejected for a parent reference exactly when its normalized path still has a
\* parent segment, and a path such as a/../b, whose parent reference collapses inside
\* the root, is accepted and (nothing obstructing, no I/O error) written at root/b.
C24_ParentTestAfterNormalization ==
  /\ [](\A k \in 1..Len(outcome) :
          outcome[k] = "unsafe" <=> HasParentSegment(NormPath(files[k].path)))
  /\ [][(HandlesEntry /\ CollapsesInside(files[idx].path)) =>
         /\ outcome'[idx] \in {"written", "mkdir_error", "write_error"}
         /\ (faults' = faults /\ ~Obstructed(files[idx].path)) =>
              /\ outcome'[idx] = "written"
              /\ Resolve(abs_output_dir \o <<Sep>> \o NormPath(files[idx].path), links)
                   \in DOMAIN fcontent'
              /\ fcontent'[Resolve(abs_output_dir \o <<Sep>> \o NormPath(files[idx].path), links)]
                   = files[idx].content]_vars

C24_Witness ==
  /\ pc = "done"
  /\ run = 1
  /\ Len(files) = 2
  /\ files[1].path = <<"a", "/", ".", ".", "/", ".", ".", "/", "b">>
  /\ files[2].path = <<"a", "/", ".", ".", "/", "b">>
  /\ outcome = <<"unsafe", "written">>
  /\ abs_output_dir \o <<Sep, "b">> \in DOMAIN fcontent
  /\ fcontent[abs_output_dir \o <<Sep, "b">>] = files[2].content

\* entries i and j have different keys and the same final path
SameFinalPath(i, j) ==
  /\ files[i].path # files[j].path
  /\ Rejection(files[i].path) = "ok"
  /\ Rejection(files[j].path) = "ok"
  /\ full_path(files[i].path) = full_path(files[j].path)

\* C25: the entries are processed in the iteration order of the set and each write
\* overwrites: when two entries with different keys resolve to the same final path and
\* both are written, the file holds the body of the later entry after the call.
C25_LaterEntryWins ==
  /\ pc \in {"loop", "done"} => Len(outcome) = idx - 1
  /\ pc = "done" =>
       \A i, j \in 1..Len(files) :
         (/\ i < j
          /\ SameFinalPath(i, j)
          /\ outcome[j] = "written"
          /\ \A k \in (j + 1)..Len(files) : ~SameFinalPath(j, k))
           => /\ Resolve(full_path(files[j].path), links) \in DOMAIN fcontent
              /\ fcontent[Resolve(full_path(files[j].path), links)] = files[j].content

C25_Witness ==
  /\ pc = "done"
  /\ run = 1
  /\ Len(files) = 2
  /\ SameFinalPath(1, 2)
  /\ outcome = <<"written", "written">>
  /\ files[1].content # files[2].content
  /\ fcontent[Resolve(full_path(files[2].path), links)] = files[2].content

\* ------------------------------------------------------------------ json.loads
\* A Python value is modelled by its canonical JSON text: no whitespace, the keys of
\* an object sorted and unique (dict equality ignores order; a repeated key keeps the
\* last value). Two parsed values are equal in Python iff their canonical texts are.
JsonWs == {" ", "\n"}
Digits == {"1", "2"}
Quote == "\""
Tick == "BACKTICK"                \* the backquote character
NullText == <<"n", "u", "l", "l">>
PyNone == NullText                \* json.loads("null") is None

\* a run of decimal digits longer than the interpreter converts to an int
\* (sys.get_int_max_str_digits()), as one element of the text
BigInt == "BIGINT"

\* exc: the exception json.loads raises, "none" when it returns
Raise(exc) == [ok |-> FALSE, pos |-> 0, val |-> <<>>, exc |-> exc]
Fail == Raise("JSONDecodeError")
Got(pos, val) == [ok |-> TRUE, pos |-> pos, val |-> val, exc |-> "none"]

RECURSIVE SkipWs(_, _)
\* the index of the first character at or after i that is not JSON whitespace
SkipWs(s, i) == IF i <= Len(s) /\ s[i] \in JsonWs THEN SkipWs(s, i + 1) ELSE i

RECURSIVE DigitsEnd(_, _)
DigitsEnd(s, i) ==
  IF i <= Len(s) /\ s[i] \in Digits \cup {BigInt} THEN DigitsEnd(s, i + 1) ELSE i

\* int(digits) of the number that starts at i raises ValueError: too many digits
TooManyDigits(s, i) == \E k \in i..(DigitsEnd(s, i) - 1) : s[k] = BigInt

RECURSIVE StringEnd(_, _)
\* the index of the quote that closes the string whose content starts at i, or 0:
\* a control character (newline) inside a string is an error
StringEnd(s, i) ==
  IF i > Len(s) \/ s[i] = "\n" THEN 0
  ELSE IF s[i] = Quote THEN i
  ELSE StringEnd(s, i + 1)

CharOrder == <<"\n", " ", Quote, ",", ".", "/", "1", "2", ":", "[", "]", Tick, "a", "j", "l",
               "n", "o", "s", "u", "x", "{", "}">>
Rank(c) == CHOOSE k \in 1..Len(CharOrder) : CharOrder[k] = c

RECURSIVE Less(_, _)
\* s < t, as Python orders strings
Less(s, t) ==
  IF t = <<>> THEN FALSE
  ELSE IF s = <<>> THEN TRUE
  ELSE IF Head(s) = Head(t) THEN Less(Tail(s), Tail(t))
  ELSE Rank(Head(s)) < Rank(Head(t))

RECURSIVE PutMember(_, _, _)
\* dict[key] = val on the sorted list of members
PutMember(members, key, val) ==
  IF members = <<>> THEN <<[key |-> key, val |-> val]>>
  ELSE IF members[1].key = key THEN <<[key |-> key, val |-> val]>> \o Tail(members)
  ELSE IF Less(key, members[1].key) THEN <<[key |-> key, val |-> val]>> \o members
  ELSE <<members[1]>> \o PutMember(Tail(members), key, val)

RECURSIVE MembersText(_)
MembersText(members) ==
  IF members = <<>> THEN <<>>
  ELSE members[1].key \o <<":">> \o members[1].val
         \o (IF Len(members) > 1 THEN <<",">> ELSE <<>>) \o MembersText(Tail(members))

ObjectText(members) == <<"{">> \o MembersText(members) \o <<"}">>
ArrayText(elems) == <<"[">> \o JoinWith(elems, ",") \o <<"]">>

RECURSIVE ParseValue(_, _)
RECURSIVE ParseElems(_, _, _)
RECURSIVE ParseMembers(_, _, _)

\* json.scanner: the value that starts at index i
ParseValue(s, i) ==
  IF i > Len(s) THEN Fail
  ELSE IF s[i] = Quote
    THEN IF StringEnd(s, i + 1) = 0 THEN Fail
         ELSE Got(StringEnd(s, i + 1) + 1, SubSeq(s, i, StringEnd(s, i + 1)))
  ELSE IF s[i] \in Digits \cup {BigInt}
    THEN IF TooManyDigits(s, i) THEN Raise("ValueError")
         ELSE Got(DigitsEnd(s, i), SubSeq(s, i, DigitsEnd(s, i) - 1))
  ELSE IF s[i] = "n"
    THEN IF i + 3 <= Len(s) /\ SubSeq(s, i, i + 3) = NullText THEN Got(i + 4, NullText)
         ELSE Fail
  ELSE IF s[i] = "["
    THEN IF SkipWs(s, i + 1) <= Len(s) /\ s[SkipWs(s, i + 1)] = "]"
         THEN Got(SkipWs(s, i + 1) + 1, ArrayText(<<>>))
         ELSE ParseElems(s, SkipWs(s, i + 1), <<>>)
  ELSE IF s[i] = "{"
    THEN IF SkipWs(s, i + 1) <= Len(s) /\ s[SkipWs(s, i + 1)] = "}"
         THEN Got(SkipWs(s, i + 1) + 1, ObjectText(<<>>))
         ELSE ParseMembers(s, SkipWs(s, i + 1), <<>>)
  ELSE Fail

\* json.decoder.JSONArray: the elements from index i on, elems parsed so far
ParseElems(s, i, elems) ==
  LET v == ParseValue(s, i)
      j == SkipWs(s, v.pos)
  IN IF ~v.ok THEN v
     ELSE IF j > Len(s) THEN Fail
     ELSE IF s[j] = "]" THEN Got(j + 1, ArrayText(Append(elems, v.val)))
     ELSE IF s[j] = "," THEN ParseElems(s, SkipWs(s, j + 1), Append(elems, v.val))
     ELSE Fail

\* json.decoder.JSONObject: the members from index i on, members parsed so far
ParseMembers(s, i, members) ==
  IF i > Len(s) \/ s[i] # Quote \/ StringEnd(s, i + 1) = 0 THEN Fail
  ELSE LET e == StringEnd(s, i + 1)
           key == SubSeq(s, i, e)
           c == SkipWs(s, e + 1)
       IN IF c > Len(s) \/ s[c] # ":" THEN Fail
          ELSE LET v == ParseValue(s, SkipWs(s, c + 1))
                   j == SkipWs(s, v.pos)
               IN IF ~v.ok THEN v
                  ELSE IF j > Len(s) THEN Fail
                  ELSE IF s[j] = "}"
                    THEN Got(j + 1, ObjectText(PutMember(members, key, v.val)))
                  ELSE IF s[j] = ","
                    THEN ParseMembers(s, SkipWs(s, j + 1), PutMember(members, key, v.val))
                  ELSE Fail

\* json.loads(s): the value, or not ok with the exception raised
Loads(s) ==
  LET v == ParseValue(s, SkipWs(s, 1))
  IN IF ~v.ok THEN v
     ELSE IF SkipWs(s, v.pos) = Len(s) + 1 THEN v ELSE Fail

\* ------------------------------------------------------------------ text helpers
EndsWith(s, p) == Len(s) >= Len(p) /\ SubSeq(s, Len(s) - Len(p) + 1, Len(s)) = p

RECURSIVE LStrip(_)
LStrip(s) == IF s # <<>> /\ Head(s) \in Whitespace THEN LStrip(Tail(s)) ELSE s

RECURSIVE RStrip(_)
RStrip(s) ==
  IF s # <<>> /\ s[Len(s)] \in Whitespace THEN RStrip(SubSeq(s, 1, Len(s) - 1)) ELSE s

\* str.strip()
Strip(s) == RStrip(LStrip(s))

\* the positions at or after from where pat occurs in s
Occurrences(s, pat, from) ==
  {k \in from..(Len(s) - Len(pat) + 1) : SubSeq(s, k, k + Len(pat) - 1) = pat}

\* the first position at or after from where pat occurs in s, 0 when there is none
FindFirst(s, pat, from) ==
  IF Occurrences(s, pat, from) = {} THEN 0
  ELSE CHOOSE k \in Occurrences(s, pat, from) : \A j \in Occurrences(s, pat, from) : k <= j

\* the last position where pat occurs in s, 0 when there is none
FindLast(s, pat) ==
  IF Occurrences(s, pat, 1) = {} THEN 0
  ELSE CHOOSE k \in Occurrences(s, pat, 1) : \A j \in Occurrences(s, pat, 1) : j <= k

RECURSIVE SkipSpace(_, _)
\* regex \s* from index i: the index of the first character that is not whitespace
SkipSpace(s, i) == IF i <= Len(s) /\ s[i] \in Whitespace THEN SkipSpace(s, i + 1) ELSE i

Fence == <<Tick, Tick, Tick>>
JsonTag == <<"j", "s", "o", "n">>

\* ------------------------------------------------------------------ parse_analysis_response
NoMatch == [found |-> FALSE, text |-> <<>>]

\* re.compile(r"```json\s*([\s\S]*?)\s*```").search(text), group(1).strip(): the text
\* between the first ```json and the first ``` after it
JsonBlock(text) ==
  LET open == FindFirst(text, Fence \o JsonTag, 1)
      close == IF open = 0 THEN 0 ELSE FindFirst(text, Fence, open + Len(Fence \o JsonTag))
  IN IF close = 0 THEN NoMatch
     ELSE [found |-> TRUE,
           text |-> Strip(SubSeq(text, open + Len(Fence \o JsonTag), close - 1))]

\* re.compile(r"(\{[\s\S]*\})").search(text), group(1): from the first opening brace to
\* the last closing brace
BraceSpan(text) ==
  LET open == FindFirst(text, <<"{">>, 1)
      close == FindLast(text, <<"}">>)
  IN IF open = 0 \/ close < open THEN NoMatch
     ELSE [found |-> TRUE, text |-> SubSeq(text, open, close)]

\* the condition of line 217
OuterFenced(text) == StartsWith(Strip(text), Fence) /\ EndsWith(Strip(text), Fence)

\* re.sub(r"^```(?:json)?\s*([\s\S]*)\s*```$", r"\1", text.strip()): the text without the
\* opening fence (and a json tag on it) and the closing fence; unchanged when the
\* pattern does not match
StripOuterFence(text) ==
  LET t == Strip(text)
      afterTag == IF StartsWith(SubSeq(t, Len(Fence) + 1, Len(t)), JsonTag)
                  THEN Len(Fence) + Len(JsonTag) + 1 ELSE Len(Fence) + 1
      body == SkipSpace(SubSeq(t, 1, Len(t) - Len(Fence)), afterTag)
  IN IF Len(t) < 2 * Len(Fence) \/ ~StartsWith(t, Fence) \/ ~EndsWith(t, Fence) THEN t
     ELSE SubSeq(t, body, Len(t) - Len(Fence))

\* where an exception raised inside the outer try goes: "next" when the
\* except json.JSONDecodeError of the strategy takes it and the function goes on,
\* "handler" when the except Exception of line 233 takes it
Handler(exc) == IF exc = "JSONDecodeError" THEN "next" ELSE "handler"

\* a character no strict codec encodes (a lone surrogate, which a Python str can hold)
Surrogate == "SURROGATE"

\* the length up to which the raw text is echoed (lines 230 and 236)
EchoLimit == 500

\* the number of characters an element of the text stands for
Width(c) == IF c = BigInt THEN EchoLimit + 1 ELSE 1

RECURSIVE TextLen(_)
\* len(text)
TextLen(s) == IF s = <<>> THEN 0 ELSE Width(Head(s)) + TextLen(Tail(s))

RECURSIVE Take(_, _)
\* text[:n]; a digit run that is cut is still a digit run
Take(s, n) ==
  IF s = <<>> \/ n = 0 THEN <<>>
  ELSE IF Width(Head(s)) > n THEN <<"1">>
  ELSE <<Head(s)>> \o Take(Tail(s), n - Width(Head(s)))

\* response_text[:500] + "..." if len(response_text) > 500 else response_text
Shown(text) ==
  IF TextLen(text) > EchoLimit THEN Take(text, EchoLimit) \o <<".", ".", ".">> ELSE text

\* print(text) on a UTF-8 standard output returns; it raises UnicodeEncodeError when
\* the text holds a character the codec does not encode
CanPrint(text) == \A i \in 1..Len(text) : text[i] # Surrogate

\* ---- the texts parse_analysis_response is called with
Str(cs) == <<Quote>> \o cs \o <<Quote>>
KeyA == Str(<<"a">>)
Member(k, v) == [key |-> k, val |-> v]

Scalars == {<<"1">>, Str(<<"a">>), NullText, Str(<<"{", "}">>), Str(Fence)}

\* the values one level deeper than those of V
Nest(V) ==
  V \cup {ArrayText(<<v>>) : v \in V}
    \cup {ObjectText(<<Member(KeyA, v)>>) : v \in V}
    \cup {ArrayText(<<v, <<"2">> >>) : v \in V}

RECURSIVE ValuesOf(_)
\* the structured values of nesting depth at most d, as canonical texts
ValuesOf(d) ==
  IF d = 0 THEN Scalars \cup {ArrayText(<<>>), ObjectText(<<>>)} ELSE Nest(ValuesOf(d - 1))

RECURSIVE Spaced(_, _)
\* json.dumps(v): the separators are ", " and ": " (inStr: inside a string)
Spaced(s, inStr) ==
  IF s = <<>> THEN <<>>
  ELSE IF Head(s) = Quote THEN <<Quote>> \o Spaced(Tail(s), ~inStr)
  ELSE IF ~inStr /\ Head(s) \in {",", ":"} THEN <<Head(s), " ">> \o Spaced(Tail(s), inStr)
  ELSE <<Head(s)>> \o Spaced(Tail(s), inStr)

Serialized(v, style) == IF style = "spaced" THEN Spaced(v, FALSE) ELSE v

\* a language tag other than json
OtherTag == <<"p", "y">>

\* the serialized form alone, in a fence tagged json, in an untagged fence, in a fence
\* with another language tag
Wrapped(ser, fence) ==
  IF fence = "tagged" THEN Fence \o JsonTag \o <<"\n">> \o ser \o <<"\n">> \o Fence
  ELSE IF fence = "untagged" THEN Fence \o <<"\n">> \o ser \o <<"\n">> \o Fence
  ELSE IF fence = "other" THEN Fence \o OtherTag \o <<"\n">> \o ser \o <<"\n">> \o Fence
  ELSE ser

\* explanatory text before the value: none, plain, with braces, with a fenced snippet,
\* with a snippet in a fence tagged json, a long number
Prefaces ==
  { <<>>,
    <<BigInt, "\n">>,
    <<"x", ":", "\n">>,
    <<"{", "x", "}", " ">>,
    Fence \o <<"x">> \o Fence \o <<"\n">>,
    Fence \o JsonTag \o <<" ", "x", "\n">> \o Fence \o <<"\n">> }
Trailers == { <<>>, <<"\n", "x">>, <<" ", "{", "x", "}">>, <<"\n">> }

TextChars == {"{", "}", Tick, "1", Quote, "\n", "[", "]", Surrogate, BigInt}
ShortTexts == UNION {[1..n -> TextChars] : n \in 0..MaxTextLen}

Origins ==
  {[kind |-> "value", value |-> v, style |-> st, fence |-> f, pre |-> a, post |-> b] :
     v \in ValuesOf(MaxDepth), st \in {"compact", "spaced"},
     f \in {"none", "tagged", "untagged", "other"}, a \in Prefaces, b \in Trailers}
  \cup {[kind |-> "text", value |-> t, style |-> "compact", fence |-> "none",
          pre |-> <<>>, post |-> <<>>] : t \in ShortTexts}

TextOf(o) == o.pre \o Wrapped(Serialized(o.value, o.style), o.fence) \o o.post

\* parse_analysis_response is not running
ExtractIdle ==
  /\ origin = [kind |-> "text", value |-> <<>>, style |-> "compact", fence |-> "none",
               pre |-> <<>>, post |-> <<>>]
  /\ response_text = <<>>
  /\ apc = "idle"
  /\ analysis_plan = PyNone
  /\ tried = <<>>
  /\ raised = FALSE

ExtractInit ==
  /\ origin \in Origins
  /\ response_text = TextOf(origin)
  /\ apc = "direct"
  /\ analysis_plan = PyNone
  /\ tried = <<>>
  /\ raised = FALSE

\* the outcome of json.loads(text) in strategy n: return the value, or go where the
\* handlers send the exception
Attempt(n, text, next) ==
  /\ tried' = Append(tried, n)
  /\ IF Loads(text).ok
     THEN apc' = "done" /\ analysis_plan' = Loads(text).val /\ UNCHANGED raised
     ELSE /\ UNCHANGED analysis_plan
          /\ apc' = IF Handler(Loads(text).exc) = "next" THEN next ELSE "handler"
          /\ UNCHANGED raised
  /\ UNCHANGED <<response_text, origin>>

\* lines 176-182: parse the trimmed text directly
DirectParse ==
  /\ apc = "direct"
  /\ Attempt(1, Strip(response_text), "block")
  /\ UNCHANGED notExtract

\* lines 186-198: parse the interior of the block tagged json
BlockParse ==
  /\ apc = "block"
  /\ IF JsonBlock(response_text).found
     THEN Attempt(2, JsonBlock(response_text).text, "brace")
     ELSE apc' = "brace" /\ UNCHANGED <<response_text, origin, analysis_plan, tried, raised>>
  /\ UNCHANGED notExtract

\* lines 202-213: parse from the first opening brace to the last closing brace
BraceParse ==
  /\ apc = "brace"
  /\ IF BraceSpan(response_text).found
     THEN Attempt(3, BraceSpan(response_text).text, "outer")
     ELSE apc' = "outer" /\ UNCHANGED <<response_text, origin, analysis_plan, tried, raised>>
  /\ UNCHANGED notExtract

\* lines 217-225: strip the outer fence and parse
OuterParse ==
  /\ apc = "outer"
  /\ IF OuterFenced(response_text)
     THEN Attempt(4, StripOuterFence(response_text), "warn")
     ELSE apc' = "warn" /\ UNCHANGED <<response_text, origin, analysis_plan, tried, raised>>
  /\ UNCHANGED notExtract

\* lines 227-231: no strategy parsed; echo the raw text and return None. The print is
\* inside the outer try
WarnUnparsed ==
  /\ apc = "warn"
  /\ IF CanPrint(Shown(response_text))
     THEN apc' = "done" /\ analysis_plan' = PyNone
     ELSE apc' = Handler("UnicodeEncodeError") /\ UNCHANGED analysis_plan
  /\ UNCHANGED <<response_text, origin, tried, raised>>
  /\ UNCHANGED notExtract

\* lines 233-238: the except Exception clause echoes the raw text again and returns
\* None; an exception raised by this print leaves the function
OuterHandler ==
  /\ apc = "handler"
  /\ apc' = "done"
  /\ raised' = ~CanPrint(Shown(response_text))
  /\ analysis_plan' = PyNone
  /\ UNCHANGED <<response_text, origin, tried>>
  /\ UNCHANGED notExtract

ExtractNext ==
  \/ DirectParse
  \/ BlockParse
  \/ BraceParse
  \/ OuterParse
  \/ WarnUnparsed
  \/ OuterHandler

\* ------------------------------------------------------------------ claims on parse_analysis_response
Returned == apc = "done" /\ ~raised

\* C7: for every input string parse_analysis_response returns a parsed structure or
\* None; no exception ever leaves it, whatever the text contains
C7_NeverRaises == raised = FALSE

\* C8: for every valid structured value v, the serialized form of v alone, in a fence
\* tagged json and in an untagged fence all make parse_analysis_response return v
C8_SameUnderAnyFence ==
  (apc = "done" /\ origin.kind = "value" /\ origin.pre = <<>> /\ origin.post = <<>>
     /\ origin.fence \in {"none", "tagged", "untagged"})
    => (Returned /\ analysis_plan = origin.value)

\* C9: when the text is not itself a valid document but contains a fenced block tagged
\* json whose interior is one, parse_analysis_response returns the parse of that
\* interior, whatever text (braces included) precedes or follows the block
C9_TaggedBlockWins ==
  (apc = "done" /\ origin.kind = "value" /\ origin.fence = "tagged"
     /\ ~Loads(Strip(response_text)).ok)
    => (Returned /\ analysis_plan = origin.value)

\* what strategy n parses, when it has something to parse: the trimmed text, the
\* interior of the block tagged json, the outermost brace span, the text without its
\* outer fence
Candidate(n, text) ==
  IF n = 1 THEN [found |-> TRUE, text |-> Strip(text)]
  ELSE IF n = 2 THEN JsonBlock(text)
  ELSE IF n = 3 THEN BraceSpan(text)
  ELSE [found |-> OuterFenced(text), text |-> StripOuterFence(text)]

\* strategy n yields a valid structure on the text
Yields(n, text) == Candidate(n, text).found /\ Loads(Candidate(n, text).text).ok

\* the first strategy in the fixed order that yields a valid structure, 0 when none
FirstValid(text) ==
  IF \E n \in 1..4 : Yields(n, text)
  THEN CHOOSE n \in 1..4 : Yields(n, text) /\ \A k \in 1..(n - 1) : ~Yields(k, text)
  ELSE 0

\* C18: the strategies are tried in the order direct parse, block tagged json,
\* outermost brace span, outer fence stripping; a strategy is tried only when every
\* earlier one failed, and what is returned is the result of the first strategy in
\* that order that yields a valid structure.
C18_FirstValidWins ==
  /\ \A i \in 1..Len(tried) : tried[i] \in 1..4 /\ Candidate(tried[i], response_text).found
  /\ \A i \in 1..(Len(tried) - 1) :
       tried[i] < tried[i + 1] /\ ~Yields(tried[i], response_text)
  /\ (apc = "done" /\ FirstValid(response_text) # 0) =>
       /\ Returned
       /\ tried[Len(tried)] = FirstValid(response_text)
       /\ analysis_plan = Loads(Candidate(FirstValid(response_text), response_text).text).val

\* C19: parse_analysis_response returns None if and only if all four strategies fail
\* on the text: whenever some strategy parses a valid structured value the caller gets
\* a result that differs from the failure signal.
C19_NoneIffAllFail ==
  apc = "done" =>
    /\ Returned
    /\ analysis_plan = PyNone <=> \A n \in 1..4 : ~Yields(n, response_text)

\* ------------------------------------------------------------------ parse_generation_response
Sentinel == <<"-", "-", "-", " ", "F", "i", "l", "e", ":">>
Closing == <<"-", "-", "-">>

\* current_path = None
NoPath == <<"None">>

\* the characters of the texts that \w matches
WordChars ==
  {"a", "b", "c", "d", "e", "i", "j", "k", "l", "m", "n", "o", "p", "r", "s", "w", "x", "y",
   "A", "D", "E", "F", "M", "N", "W", "1", "2", "_"}

\* what may follow the path on a marker line: \s*(?:---)?$
MarkerTail(t) == LStrip(t) = <<>> \/ LStrip(t) = Closing

\* file_delimiter_pattern.match(line), group(1).strip(), for
\* r"^--- File:\s*(.*?)\s*(?:---)?$": the shortest group that lets the tail match
FileDelimiter(line) ==
  IF ~StartsWith(line, Sentinel) THEN NoMatch
  ELSE LET rest == LStrip(SubSeq(line, Len(Sentinel) + 1, Len(line)))
           TailFrom(k) == SubSeq(rest, k + 1, Len(rest))
           k == CHOOSE n \in 0..Len(rest) :
                  MarkerTail(TailFrom(n)) /\ \A j \in 0..(n - 1) : ~MarkerTail(TailFrom(j))
       IN [found |-> TRUE, text |-> Strip(SubSeq(rest, 1, k))]

\* code_block_pattern.match(line.strip()) for r"^```(\w*)$"
IsFenceLine(line) ==
  LET t == Strip(line)
  IN StartsWith(t, Fence) /\ \A i \in (Len(Fence) + 1)..Len(t) : t[i] \in WordChars

RECURSIVE DropFenceLines(_)
\* the loop of lines 338-353: every line but the fence lines
DropFenceLines(content_list) ==
  IF content_list = <<>> THEN <<>>
  ELSE IF IsFenceLine(Head(content_list)) THEN DropFenceLines(Tail(content_list))
  ELSE <<Head(content_list)>> \o DropFenceLines(Tail(content_list))

process_content(content_list, is_markdown_file) ==
  IF content_list = <<>> THEN <<>>
  ELSE IF is_markdown_file THEN JoinWith(content_list, "\n")
  ELSE JoinWith(DropFenceLines(content_list), "\n")

LowerOf(c) ==
  CASE c = "A" -> "a" [] c = "D" -> "d" [] c = "M" -> "m" [] c = "N" -> "n"
    [] c = "E" -> "e" [] c = "W" -> "w" [] c = "F" -> "f" [] OTHER -> c

\* str.lower()
Lower(s) == [i \in 1..Len(s) |-> LowerOf(s[i])]

\* current_path.lower().endswith(('.md', '.markdown'))
IsMarkdownFile(path) ==
  \/ EndsWith(Lower(path), <<".", "m", "d">>)
  \/ EndsWith(Lower(path), <<".", "m", "a", "r", "k", "d", "o", "w", "n">>)

\* current_path.replace('/', os.sep).replace('\\', os.sep)
normalized_path(path) == [i \in 1..Len(path) |-> IF path[i] = "\\" THEN Sep ELSE path[i]]

\* files[key] = body: a new key goes last, an old key keeps its place
Put(fs, key, body) ==
  IF \E i \in 1..Len(fs) : fs[i].path = key
  THEN [i \in 1..Len(fs) |-> IF fs[i].path = key THEN [path |-> key, body |-> body]
                             ELSE fs[i]]
  ELSE Append(fs, [path |-> key, body |-> body])

\* lines 361-366 and 384-388: store the file that was being read
Flush(fs, path, content_list) ==
  IF path = NoPath THEN fs
  ELSE Put(fs, normalized_path(path), process_content(content_list, IsMarkdownFile(path)))

\* ---- the texts parse_generation_response is called with
GenLineSet ==
  { Sentinel \o <<" ", "a", " ">> \o Closing,
    Sentinel \o <<" ", "b">>,
    Sentinel \o <<" ", "a", ".", "m", "d", " ">> \o Closing,
    Sentinel \o <<" ", "A", ".", "M", "D">>,
    <<" ", " ">> \o Sentinel \o <<" ", "a">>,
    Sentinel,
    Sentinel \o <<" ">> \o Closing,
    Sentinel \o <<" ", "a", " ", "(", "N", "E", "W", ")", " ">> \o Closing,
    Sentinel \o <<" ", "a", " ">> \o Closing \o <<" ">>,
    Sentinel \o <<" ", "d", "\\", "a">>,
    <<"x">>,
    <<>>,
    Fence,
    Fence \o <<"p", "y">>,
    <<" ">> \o Fence \o <<" ">>,
    <<"x", " ">> \o Fence }

\* up to MaxLines lines, with or without a newline after the last
Responses ==
  {JoinWith(ls, "\n") \o end : ls \in UNION {[1..n -> GenLineSet] : n \in 0..MaxLines},
                               end \in {<<>>, <<"\n">>}}

\* response.strip().split('\n')
GenLines == Split(Strip(response), "\n")

\* parse_generation_response is not running
GenIdle ==
  /\ response = <<>>
  /\ gpc = "idle"
  /\ lineno = 1
  /\ current_path = NoPath
  /\ current_content = <<>>
  /\ generated_files = <<>>
  /\ warned = FALSE

GenInit ==
  /\ response \in Responses
  /\ gpc = "scan"
  /\ lineno = 1
  /\ current_path = NoPath
  /\ current_content = <<>>
  /\ generated_files = <<>>
  /\ warned = FALSE

InScan == gpc = "scan" /\ lineno <= Len(GenLines)

\* lines 357-371: a file delimiter line stores the file being read and starts the next
ReadMarker ==
  /\ InScan
  /\ FileDelimiter(GenLines[lineno]).found
  /\ generated_files' = Flush(generated_files, current_path, current_content)
  /\ current_path' = FileDelimiter(GenLines[lineno]).text
  /\ current_content' = <<>>
  /\ lineno' = lineno + 1
  /\ UNCHANGED <<response, gpc, warned>>
  /\ UNCHANGED notGen

\* lines 372-380: any other line after a delimiter is buffered (in_code_block and
\* code_block_language are set here and never read)
ReadBody ==
  /\ InScan
  /\ ~FileDelimiter(GenLines[lineno]).found
  /\ current_path # NoPath
  /\ current_content' = Append(current_content, GenLines[lineno])
  /\ lineno' = lineno + 1
  /\ UNCHANGED <<response, gpc, current_path, generated_files, warned>>
  /\ UNCHANGED notGen

\* line 372 false: a line before the first delimiter is dropped
SkipPreamble ==
  /\ InScan
  /\ ~FileDelimiter(GenLines[lineno]).found
  /\ current_path = NoPath
  /\ lineno' = lineno + 1
  /\ UNCHANGED <<response, gpc, current_path, current_content, generated_files, warned>>
  /\ UNCHANGED notGen

\* lines 383-388: after the last line the file being read is stored
FlushLast ==
  /\ gpc = "scan"
  /\ lineno > Len(GenLines)
  /\ generated_files' = Flush(generated_files, current_path, current_content)
  /\ gpc' = "report"
  /\ UNCHANGED <<response, lineno, current_path, current_content, warned>>
  /\ UNCHANGED notGen

\* lines 390-394: warn when nothing was extracted, and return files
ReturnFiles ==
  /\ gpc = "report"
  /\ warned' = (generated_files = <<>>)
  /\ gpc' = "done"
  /\ UNCHANGED <<response, lineno, current_path, current_content, generated_files>>
  /\ UNCHANGED notGen

GenNext ==
  \/ ReadMarker
  \/ ReadBody
  \/ SkipPreamble
  \/ FlushLast
  \/ ReturnFiles

\* ------------------------------------------------------------------ claims on parse_generation_response
\* keys are unique: the result is a mapping
IsMapping(fs) == \A i, j \in 1..Len(fs) : fs[i].path = fs[j].path => i = j

\* the path token of a marker line: what follows the sentinel, without the closing
\* sentinel
MarkerPathToken(line) ==
  LET t == Strip(line)
      rest == Strip(SubSeq(t, Len(Sentinel) + 1, Len(t)))
  IN IF EndsWith(rest, Closing) THEN Strip(SubSeq(rest, 1, Len(rest) - Len(Closing)))
     ELSE rest

\* a boundary marker: after trimming, the sentinel followed by a non-empty path token
IsBoundaryMarker(line) ==
  StartsWith(Strip(line), Sentinel) /\ MarkerPathToken(line) # <<>>

NoBoundaryMarker(text) ==
  \A i \in 1..Len(Split(text, "\n")) : ~IsBoundaryMarker(Split(text, "\n")[i])

\* C10: parse_generation_response returns a mapping for every input string, and the
\* mapping is empty when no line of the input is a boundary marker
C10_EmptyWithoutMarker ==
  gpc = "done" =>
    /\ IsMapping(generated_files)
    /\ NoBoundaryMarker(response) => generated_files = <<>>

\* ---- the reply as the claims read it: lines, boundary markers, path tokens, buffers
\* the lines of a text; a final newline ends the last line and opens no further one
InputLines(text) ==
  IF text = <<>> THEN <<>>
  ELSE IF text[Len(text)] = "\n" THEN Split(SubSeq(text, 1, Len(text) - 1), "\n")
  ELSE Split(text, "\n")

\* a trailing parenthesized annotation such as (NEW) removed
WithoutAnnotation(tok) ==
  IF tok # <<>> /\ tok[Len(tok)] = ")" /\ FindLast(tok, <<"(">>) > 0
  THEN Strip(SubSeq(tok, 1, FindLast(tok, <<"(">>) - 1))
  ELSE tok

\* the path P a marker line announces: the token after the sentinel, without the
\* closing sentinel and the annotation, slash-normalized
AnnouncedPath(line) == normalized_path(WithoutAnnotation(MarkerPathToken(line)))

\* a fence marker line: after trimming, the fence token, optionally followed at once by
\* an alphanumeric language tag, and nothing else
IsFenceMarker(line) ==
  LET t == Strip(line)
  IN StartsWith(t, Fence) /\ \A i \in (Len(Fence) + 1)..Len(t) : t[i] \in WordChars \ {"_"}

\* a prose path: a documentation-style extension
IsProsePath(path) == IsMarkdownFile(path)

RECURSIVE Announced(_)
\* the entries the markers of the lines announce, with the lines buffered for each
Announced(lines) ==
  IF lines = <<>> THEN <<>>
  ELSE LET before == Announced(SubSeq(lines, 1, Len(lines) - 1))
           last == lines[Len(lines)]
       IN IF IsBoundaryMarker(last)
          THEN Append(before, [path |-> AnnouncedPath(last), buffer |-> <<>>])
          ELSE IF before = <<>> THEN before
          ELSE [before EXCEPT ![Len(before)].buffer = Append(@, last)]

RECURSIVE WithoutFenceMarkers(_)
WithoutFenceMarkers(lines) ==
  IF lines = <<>> THEN <<>>
  ELSE IF IsFenceMarker(Head(lines)) THEN WithoutFenceMarkers(Tail(lines))
  ELSE <<Head(lines)>> \o WithoutFenceMarkers(Tail(lines))

\* the body of an announced entry: prose verbatim, otherwise without fence marker lines
BodyFor(e) ==
  IF IsProsePath(e.path) THEN JoinWith(e.buffer, "\n")
  ELSE JoinWith(WithoutFenceMarkers(e.buffer), "\n")

AnnouncedIn(text) == Announced(InputLines(text))

DistinctPaths(es) == \A i, j \in 1..Len(es) : es[i].path = es[j].path => i = j

\* the reply is made of markers, each followed by its body lines: nothing precedes the
\* first marker
MadeOfMarkers(text) == InputLines(text) # <<>> /\ IsBoundaryMarker(InputLines(text)[1])

\* C11: for an input made of N boundary markers with pairwise distinct path tokens, each
\* followed by arbitrary body lines, parse_generation_response returns exactly N entries
\* in the order of the markers, each with the newline-joined lines buffered for it
C11_OneEntryPerMarker ==
  (gpc = "done" /\ MadeOfMarkers(response) /\ DistinctPaths(AnnouncedIn(response)))
    => generated_files =
         [i \in 1..Len(AnnouncedIn(response)) |->
            [path |-> AnnouncedIn(response)[i].path,
             body |-> BodyFor(AnnouncedIn(response)[i])]]

\* the entries of fs whose key is p
EntriesFor(fs, p) == {i \in 1..Len(fs) : fs[i].path = p}

\* the last announcement of the path announced at position i
LastOf(es, i) == CHOOSE j \in 1..Len(es) :
                   es[j].path = es[i].path /\ \A k \in 1..Len(es) : es[k].path = es[i].path => k <= j

\* C12: when the same path P is announced by two markers, first with body A and later
\* with body B, the result has exactly one entry for P and its body is B alone
C12_LaterMarkerReplaces ==
  gpc = "done" =>
    \A i \in 1..Len(AnnouncedIn(response)) :
      LastOf(AnnouncedIn(response), i) # i =>
        /\ Cardinality(EntriesFor(generated_files, AnnouncedIn(response)[i].path)) = 1
        /\ \A k \in EntriesFor(generated_files, AnnouncedIn(response)[i].path) :
             generated_files[k].body =
               BodyFor(AnnouncedIn(response)[LastOf(AnnouncedIn(response), i)])

\* C13: for a file whose path is not a prose path the body returned is the buffered
\* lines without the fence marker lines: every other line, blank lines and lines with
\* backticks among other text included, is kept, in order
C13_OnlyFenceLinesRemoved ==
  gpc = "done" =>
    \A i \in 1..Len(AnnouncedIn(response)) :
      (LastOf(AnnouncedIn(response), i) = i /\ ~IsProsePath(AnnouncedIn(response)[i].path))
        => \E k \in EntriesFor(generated_files, AnnouncedIn(response)[i].path) :
             generated_files[k].body =
               JoinWith(WithoutFenceMarkers(AnnouncedIn(response)[i].buffer), "\n")

\* C14: for a file whose path has a prose extension the body returned is the buffered
\* lines verbatim, fence marker lines included
C14_ProseVerbatim ==
  gpc = "done" =>
    \A i \in 1..Len(AnnouncedIn(response)) :
      (LastOf(AnnouncedIn(response), i) = i /\ IsProsePath(AnnouncedIn(response)[i].path))
        => \E k \in EntriesFor(generated_files, AnnouncedIn(response)[i].path) :
             generated_files[k].body = JoinWith(AnnouncedIn(response)[i].buffer, "\n")

\* the lines of the reply as they reach the scan when more text follows them: leading
\* whitespace of the reply is removed, nothing is removed at its end
LinesBeforeMore(text) == InputLines(LStrip(text))

\* the position of the last file delimiter line, 0 when there is none
LastDelimiter(lines) ==
  IF \E i \in 1..Len(lines) : FileDelimiter(lines[i]).found
  THEN CHOOSE i \in 1..Len(lines) :
         /\ FileDelimiter(lines[i]).found
         /\ \A j \in (i + 1)..Len(lines) : ~FileDelimiter(lines[j]).found
  ELSE 0

\* the lines buffered for the last file of the lines
LastBuffer(lines) == SubSeq(lines, LastDelimiter(lines) + 1, Len(lines))

\* C21: the body of a path is the same whether its buffer is closed by a following
\* delimiter or by the end of the input: the last file of a reply is in the result
\* and keeps every buffered line, trailing blank lines included, as a file in the
\* middle of the reply does.
C21_LastFileLikeMiddle ==
  (gpc = "done" /\ LastDelimiter(LinesBeforeMore(response)) > 0) =>
    /\ current_path # NoPath
    /\ \E k \in EntriesFor(generated_files, normalized_path(current_path)) :
         generated_files[k].body =
           process_content(LastBuffer(LinesBeforeMore(response)), IsMarkdownFile(current_path))

\* C22: each line is tested against the delimiter pattern after trimming: a marker line
\* with leading or trailing whitespace, anywhere in the reply, is recognized as a
\* boundary and starts a new file with the path the trimmed line names.
C22_MarkerTestedTrimmed ==
  [][(InScan /\ FileDelimiter(Strip(GenLines[lineno])).found) =>
       /\ current_path' = FileDelimiter(Strip(GenLines[lineno])).text
       /\ current_content' = <<>>]_vars

\* C23: every key of the set returned by parse_generation_response is a non-empty path;
\* a line made of the sentinel with no path token is not a boundary marker and never
\* opens an entry.
C23_KeysNonEmpty ==
  /\ \A k \in 1..Len(generated_files) : generated_files[k].path # <<>>
  /\ current_path # <<>>

\* ------------------------------------------------------------------ the outer fence of parse_analysis_response
\* the trimmed text starts and ends with a fence marker: the fence token, with a
\* language tag or without, alone on the first line, and the fence token alone on the
\* last line
FenceWrapped(text) ==
  LET lines == Split(Strip(text), "\n")
  IN /\ Len(lines) >= 2
     /\ IsFenceMarker(Strip(lines[1]))
     /\ Strip(lines[Len(lines)]) = Fence

\* the text between the opening fence line and the closing fence line
Unfenced(text) ==
  LET lines == Split(Strip(text), "\n")
  IN JoinWith(SubSeq(lines, 2, Len(lines) - 1), "\n")

\* C20: when the trimmed text starts and ends with a fence marker and the first three
\* strategies fail, the fourth strategy removes exactly the opening fence line, with
\* any language tag on it, and the closing fence line, and returns the parse of what
\* remains whenever that is a valid structured document.
C20_OuterFenceRemoved ==
  (/\ apc = "done"
   /\ FenceWrapped(response_text)
   /\ \A n \in 1..3 : ~Yields(n, response_text)
   /\ Loads(Unfenced(response_text)).ok)
    => /\ Returned
       /\ tried[Len(tried)] = 4
       /\ analysis_plan = Loads(Unfenced(response_text)).val

\* ------------------------------------------------------------------ parse_validation_response
NewTag == <<"(", "N", "E", "W", ")">>

\* json_pattern.search(text) for r"```(?:json)?\s*([\s\S]*?)\s*```": the first fence, its
\* json tag if any, and the first fence after that; text is group(1).strip(), end the
\* position of the first character after the match
JsonMatch(text) ==
  LET open == FindFirst(text, Fence, 1)
      from == IF open = 0 THEN 0
              ELSE IF StartsWith(SubSeq(text, open + Len(Fence), Len(text)), JsonTag)
              THEN open + Len(Fence) + Len(JsonTag)
              ELSE open + Len(Fence)
      close == IF open = 0 THEN 0 ELSE FindFirst(text, Fence, from)
  IN IF close = 0 THEN [found |-> FALSE, text |-> <<>>, end |-> 0]
     ELSE [found |-> TRUE, text |-> Strip(SubSeq(text, from, close - 1)),
           end |-> close + Len(Fence)]

\* lines 483-501: the report is the parse of the first fenced block, else of the span
\* from the first opening brace to the last closing brace of the reply, else None
ReportOf(text) ==
  IF ~JsonMatch(text).found THEN PyNone
  ELSE IF Loads(JsonMatch(text).text).ok THEN Loads(JsonMatch(text).text).val
  ELSE IF BraceSpan(text).found /\ Loads(BraceSpan(text).text).ok
  THEN Loads(BraceSpan(text).text).val
  ELSE PyNone

\* lines 509-514: everything after the first fenced block, the whole reply when there is
\* no block or nothing follows it
FileSectionOf(text) ==
  IF JsonMatch(text).found /\ JsonMatch(text).end <= Len(text)
  THEN SubSeq(text, JsonMatch(text).end, Len(text))
  ELSE text

\* what may follow the path on a marker line: \s*(?:---)?(?:\s*\(NEW\))?$
VMarkerTail(t) ==
  LET u == LStrip(t)
      v == IF StartsWith(u, Closing) THEN SubSeq(u, Len(Closing) + 1, Len(u)) ELSE u
  IN v = <<>> \/ LStrip(v) = NewTag

\* file_delimiter_pattern.match(line), group(1).strip(), for
\* r"^--- File:\s*(.*?)\s*(?:---)?(?:\s*\(NEW\))?$"
VFileDelimiter(line) ==
  IF ~StartsWith(line, Sentinel) THEN NoMatch
  ELSE LET rest == LStrip(SubSeq(line, Len(Sentinel) + 1, Len(line)))
           TailFrom(k) == SubSeq(rest, k + 1, Len(rest))
           k == CHOOSE n \in 0..Len(rest) :
                  VMarkerTail(TailFrom(n)) /\ \A j \in 0..(n - 1) : ~VMarkerTail(TailFrom(j))
       IN [found |-> TRUE, text |-> Strip(SubSeq(rest, 1, k))]

\* ---- the texts parse_validation_response is called with
ReportBlock == Fence \o JsonTag \o <<"\n", "{", Quote, "a", Quote, ":", "1", "}", "\n">> \o Fence
PlainBlock == Fence \o <<"\n", "[", "1", "]", "\n">> \o Fence
BrokenBlock == Fence \o JsonTag \o <<"\n", "x", "\n">> \o Fence

ChunkSet ==
  { ReportBlock, PlainBlock, BrokenBlock,
    Sentinel \o <<" ", "a">>,
    Sentinel \o <<" ", "a", " ">> \o Closing,
    Sentinel \o <<" ", "a", " ">> \o NewTag,
    Sentinel \o <<" ", "a", " ">> \o NewTag \o <<" ">> \o Closing,
    Sentinel \o <<" ", "a", " ">> \o Closing \o <<" ">> \o NewTag,
    Sentinel \o <<" ", "b", ".", "m", "d">>,
    <<"x">>,
    <<"{", "}">>,
    Fence }

VResponses ==
  {JoinWith(cs, "\n") : cs \in UNION {[1..n -> ChunkSet] : n \in 0..MaxChunks}}

\* file_section.strip().split('\n')
VLines == Split(Strip(file_section), "\n")

\* parse_validation_response is not running
ValIdle ==
  /\ vresponse = <<>>
  /\ vpc = "idle"
  /\ validation_report = PyNone
  /\ file_section = <<>>
  /\ vlineno = 1
  /\ vcurrent_path = NoPath
  /\ vcurrent_content = <<>>
  /\ validated_files = <<>>

ValInit ==
  /\ vresponse \in VResponses
  /\ vpc = "report"
  /\ validation_report = PyNone
  /\ file_section = <<>>
  /\ vlineno = 1
  /\ vcurrent_path = NoPath
  /\ vcurrent_content = <<>>
  /\ validated_files = <<>>

\* lines 479-501: extract the validation report
ParseReport ==
  /\ vpc = "report"
  /\ validation_report' = ReportOf(vresponse)
  /\ vpc' = "section"
  /\ UNCHANGED <<vresponse, file_section, vlineno, vcurrent_path, vcurrent_content,
                 validated_files>>
  /\ UNCHANGED notVal

\* lines 503-514: find where the file section starts
FindFileSection ==
  /\ vpc = "section"
  /\ file_section' = FileSectionOf(vresponse)
  /\ vpc' = "scan"
  /\ UNCHANGED <<vresponse, validation_report, vlineno, vcurrent_path, vcurrent_content,
                 validated_files>>
  /\ UNCHANGED notVal

VInScan == vpc = "scan" /\ vlineno <= Len(VLines)

\* lines 572-585: a file delimiter line stores the file being read and starts the next
VReadMarker ==
  /\ VInScan
  /\ VFileDelimiter(VLines[vlineno]).found
  /\ validated_files' = Flush(validated_files, vcurrent_path, vcurrent_content)
  /\ vcurrent_path' = VFileDelimiter(VLines[vlineno]).text
  /\ vcurrent_content' = <<>>
  /\ vlineno' = vlineno + 1
  /\ UNCHANGED <<vresponse, vpc, validation_report, file_section>>
  /\ UNCHANGED notVal

\* lines 586-593: any other line after a delimiter is buffered
VReadBody ==
  /\ VInScan
  /\ ~VFileDelimiter(VLines[vlineno]).found
  /\ vcurrent_path # NoPath
  /\ vcurrent_content' = Append(vcurrent_content, VLines[vlineno])
  /\ vlineno' = vlineno + 1
  /\ UNCHANGED <<vresponse, vpc, validation_report, file_section, vcurrent_path,
                 validated_files>>
  /\ UNCHANGED notVal

\* line 586 false: a line before the first delimiter is dropped
VSkipPreamble ==
  /\ VInScan
  /\ ~VFileDelimiter(VLines[vlineno]).found
  /\ vcurrent_path = NoPath
  /\ vlineno' = vlineno + 1
  /\ UNCHANGED <<vresponse, vpc, validation_report, file_section, vcurrent_path,
                 vcurrent_content, validated_files>>
  /\ UNCHANGED notVal

\* lines 595-603: after the last line the file being read is stored; return
VFlushLast ==
  /\ vpc = "scan"
  /\ vlineno > Len(VLines)
  /\ validated_files' = Flush(validated_files, vcurrent_path, vcurrent_content)
  /\ vpc' = "done"
  /\ UNCHANGED <<vresponse, validation_report, file_section, vlineno, vcurrent_path,
                 vcurrent_content>>
  /\ UNCHANGED notVal

ValNext ==
  \/ ParseReport
  \/ FindFileSection
  \/ VReadMarker
  \/ VReadBody
  \/ VSkipPreamble
  \/ VFlushLast

\* ------------------------------------------------------------------ claims on the two file parsers
\* the forms of a marker line announcing path p: with or without the annotation, with
\* or without the closing sentinel
FormsOf(p) ==
  {Sentinel \o <<" ">> \o p \o a \o c : a \in {<<>>, <<" ">> \o NewTag},
                                       c \in {<<>>, <<" ">> \o Closing}}

\* every line that starts with the sentinel is a marker in one of the four forms
AllFourForms(lines) ==
  \A i \in 1..Len(lines) :
    StartsWith(Strip(lines[i]), Sentinel) =>
      /\ AnnouncedPath(lines[i]) # <<>>
      /\ ~EndsWith(AnnouncedPath(lines[i]), Closing)
      /\ lines[i] \in FormsOf(AnnouncedPath(lines[i]))

AnnouncedPaths(lines) ==
  {AnnouncedPath(lines[i]) : i \in {j \in 1..Len(lines) : IsBoundaryMarker(lines[j])}}

Keys(fs) == {fs[i].path : i \in 1..Len(fs)}

\* C15: a marker line announcing P, with or without the annotation and with or without
\* the closing sentinel, is recognized and its entry is keyed by P alone, in
\* parse_generation_response and in the file section of parse_validation_response
C15_KeyedByPathAlone ==
  /\ (gpc = "done" /\ AllFourForms(InputLines(response)))
       => Keys(generated_files) = AnnouncedPaths(InputLines(response))
  /\ (vpc = "done" /\ AllFourForms(InputLines(file_section)))
       => Keys(validated_files) = AnnouncedPaths(InputLines(file_section))

\* the part of the reply that follows the end of its first fenced block; the whole
\* reply when it has no fenced block
AfterFirstBlock(text) ==
  IF JsonMatch(text).found THEN SubSeq(text, JsonMatch(text).end, Len(text)) ELSE text

\* the paths of the file delimiter lines of a text
DelimitedPaths(text) ==
  {normalized_path(VFileDelimiter(Split(Strip(text), "\n")[i]).text) :
     i \in {j \in 1..Len(Split(Strip(text), "\n")) :
              VFileDelimiter(Split(Strip(text), "\n")[j]).found}}

\* C28: parse_validation_response scans for file delimiters only in the part of the
\* reply that follows the end of the first fenced block: a file whose marker lies
\* before or inside that block is not in the returned set; a reply without a fenced
\* block is scanned whole.
C28_ScanAfterFirstBlock ==
  /\ vpc \in {"scan", "done"} => file_section = AfterFirstBlock(vresponse)
  /\ vpc = "done" => Keys(validated_files) \subseteq DelimitedPaths(AfterFirstBlock(vresponse))

\* ------------------------------------------------------------------ main
\* mutant of Update: the corrected set replaces the original one
UpdateReplaces(F, G) == G

RECURSIVE Update(_, _)
\* F.update(G): every entry of G is assigned into F, in the order of G
Update(F, G) ==
  IF G = <<>> THEN F ELSE Update(Put(F, Head(G).path, Head(G).body), Tail(G))

\* ---- what main is given
MainPaths == {<<"a">>, <<"b">>, <<"c">>}
OldBody == <<"o", "l", "d">>
NewBody == <<"n", "e", "w">>

\* the file sets of at most MaxFiles entries with the given body
FileSetsWith(body) ==
  {fs \in UNION {[1..n -> [path : MainPaths, body : {body}]] : n \in 0..MaxFiles} :
     \A i, j \in 1..Len(fs) : fs[i].path = fs[j].path => i = j}

\* the validation report, by what lines 856-871 do with it: None; a falsy value; a
\* truthy value that is not a dict (no .get); a dict that is not empty
ReportKinds == {"none", "falsy", "nondict", "dict"}

\* the issues_found member of a report that is a dict, as its JSON text
IssuesFoundValues == {"absent", "true", "false", "\"false\"", "1"}

\* if issues_found: the truth value Python gives it (absent is the default False)
Truthy(v) == v \in {"true", "\"false\"", "1"}

\* the issues member: a list of dicts (or absent), or something len() or .get fails on
IssuesKinds == {"dicts", "malformed"}

\* the replies with a report: the members of the report count when it is a dict
Reports ==
  [report : ReportKinds \ {"dict"}, issues_found : {"absent"}, issues : {"dicts"}]
    \cup [report : {"dict"}, issues_found : IssuesFoundValues, issues : IssuesKinds]

\* main is not running
MainIdle ==
  /\ mpc = "idle"
  /\ args = [skip_validation |-> FALSE]
  /\ replies = [plan |-> FALSE, generated |-> <<>>, answered |-> FALSE, report |-> "none",
                issues_found |-> "absent", issues |-> "dicts", validated |-> <<>>]
  /\ generated = <<>>
  /\ final_files = <<>>
  /\ merged = FALSE

MainInit ==
  /\ mpc = "analyse"
  /\ args \in [skip_validation : BOOLEAN]
  /\ \E r \in Reports :
       replies \in [plan : BOOLEAN, generated : FileSetsWith(OldBody), answered : BOOLEAN,
                    report : {r.report}, issues_found : {r.issues_found}, issues : {r.issues},
                    validated : FileSetsWith(NewBody) \cup FileSetsWith(OldBody)]
  /\ generated = <<>>
  /\ final_files = <<>>
  /\ merged = FALSE

\* lines 756-770: no plan ends the run
Analyse ==
  /\ mpc = "analyse"
  /\ mpc' = IF replies.plan THEN "generate" ELSE "exit"
  /\ UNCHANGED <<args, replies, generated, final_files, merged>>
  /\ UNCHANGED notMain

\* mutant of Generate: an empty set of generated files does not end the run
GenerateUnchecked ==
  /\ mpc = "generate"
  /\ generated' = replies.generated
  /\ mpc' = "validate"
  /\ final_files' = replies.generated
  /\ UNCHANGED <<args, replies, merged>>
  /\ UNCHANGED notMain

\* lines 783-819: an empty set of generated files ends the run; otherwise final_files
\* starts as a copy of generated_files
Generate ==
  /\ mpc = "generate"
  /\ generated' = replies.generated
  /\ IF replies.generated = <<>>
     THEN mpc' = "exit" /\ UNCHANGED final_files
     ELSE mpc' = "validate" /\ final_files' = replies.generated
  /\ UNCHANGED <<args, replies, merged>>
  /\ UNCHANGED notMain

\* line 821: --skip-validation
SkipValidation ==
  /\ mpc = "validate"
  /\ args.skip_validation
  /\ mpc' = "store"
  /\ UNCHANGED <<args, replies, generated, final_files, merged>>
  /\ UNCHANGED notMain

\* lines 826-830: the validation prompt is written to ./validation_prompt.txt outside
\* any try; the write succeeds, or raises and ends the run
SavePrompt ==
  /\ mpc = "validate"
  /\ ~args.skip_validation
  /\ mpc' \in {"ask", "crash"}
  /\ UNCHANGED <<args, replies, generated, final_files, merged>>
  /\ UNCHANGED notMain

\* lines 836-839: no reply from the validation agent
NoValidationReply ==
  /\ mpc = "ask"
  /\ ~replies.answered
  /\ mpc' = "store"
  /\ UNCHANGED <<args, replies, generated, final_files, merged>>
  /\ UNCHANGED notMain

Validating == mpc = "ask" /\ replies.answered

\* lines 857-863: .get on a report that is not a dict, len() or .get on malformed issues
ValidationCrash ==
  /\ Validating
  /\ \/ replies.report = "nondict"
     \/ replies.report = "dict" /\ Truthy(replies.issues_found) /\ replies.issues = "malformed"
  /\ mpc' = "crash"
  /\ UNCHANGED <<args, replies, generated, final_files, merged>>
  /\ UNCHANGED notMain

\* lines 856-871 without the update: no report, no issues, or no fixed files
KeepGenerated ==
  /\ Validating
  /\ \/ replies.report \in {"none", "falsy"}
     \/ replies.report = "dict" /\ ~Truthy(replies.issues_found)
     \/ /\ replies.report = "dict" /\ Truthy(replies.issues_found)
        /\ replies.issues = "dicts" /\ replies.validated = <<>>
  /\ mpc' = "store"
  /\ UNCHANGED <<args, replies, generated, final_files, merged>>
  /\ UNCHANGED notMain

\* lines 865-867: final_files.update(validated_files)
Merge ==
  /\ Validating
  /\ replies.report = "dict" /\ Truthy(replies.issues_found) /\ replies.issues = "dicts"
  /\ replies.validated # <<>>
  /\ final_files' = Update(final_files, replies.validated)
  /\ merged' = TRUE
  /\ mpc' = "store"
  /\ UNCHANGED <<args, replies, generated>>
  /\ UNCHANGED notMain

\* lines 876-878: store_test_files(final_files, ...)
StoreFinal ==
  /\ mpc = "store"
  /\ mpc' = "done"
  /\ UNCHANGED <<args, replies, generated, final_files, merged>>
  /\ UNCHANGED notMain

MainNext ==
  \/ Analyse
  \/ Generate
  \/ SkipValidation
  \/ SavePrompt
  \/ NoValidationReply
  \/ ValidationCrash
  \/ KeepGenerated
  \/ Merge
  \/ StoreFinal

\* ------------------------------------------------------------------ claims on main
\* the body fs holds for path p
BodyIn(fs, p) == fs[CHOOSE i \in 1..Len(fs) : fs[i].path = p].body

\* C16: the merge of the original set F with the corrected set G has as keys the union
\* of the keys of F and G; every path of G has G's body, every path of F that is not in
\* G keeps F's body; no path of F is absent from the merged set
C16_MergeIsUnion ==
  merged =>
    /\ IsMapping(final_files)
    /\ Keys(final_files) = Keys(replies.generated) \cup Keys(replies.validated)
    /\ \A p \in Keys(replies.validated) :
         BodyIn(final_files, p) = BodyIn(replies.validated, p)
    /\ \A p \in Keys(replies.generated) \ Keys(replies.validated) :
         BodyIn(final_files, p) = BodyIn(replies.generated, p)

\* a merge that overwrites one path, carries one over and adds one
C16_Witness ==
  /\ merged
  /\ \E p \in Keys(replies.generated) \cap Keys(replies.validated) :
       BodyIn(replies.generated, p) # BodyIn(replies.validated, p)
  /\ Keys(replies.generated) \ Keys(replies.validated) # {}
  /\ Keys(replies.validated) \ Keys(replies.generated) # {}

\* a stage after the generation stage has started, or the files are handed over
PastGeneration == mpc \in {"validate", "ask", "store", "done", "crash"}

\* C26: store_test_files is reached only when the extractor returned a plan and the
\* generation parser returned a non-empty set; after an extraction failure or an empty
\* generation result the run ends with the error exit, no later stage runs and nothing
\* is handed to store_test_files.
C26_StoreNeedsPlanAndFiles ==
  /\ [](PastGeneration => (replies.plan /\ replies.generated # <<>>))
  /\ [](mpc = "exit" => (final_files = <<>> /\ ~merged
                            /\ (~replies.plan \/ replies.generated = <<>>)))
  /\ [][(mpc = "analyse" /\ ~replies.plan) => mpc' = "exit"]_vars
  /\ [][(mpc = "generate" /\ replies.generated = <<>>) => mpc' = "exit"]_vars
  /\ [][mpc = "exit" => UNCHANGED vars]_vars

C26_Witness ==
  /\ mpc = "exit"
  /\ replies.plan
  /\ replies.generated = <<>>
  /\ replies.answered
  /\ replies.validated # <<>>
  /\ ~args.skip_validation

\* the report was parsed, its issues_found member is true and the corrected set is
\* not empty
MergeCalledFor ==
  /\ ~args.skip_validation
  /\ replies.answered
  /\ replies.report = "dict"
  /\ replies.issues_found = "true"
  /\ replies.validated # <<>>

\* C27: the corrected set is merged into the generated set only when the validation
\* report was parsed, its issues_found member is true and the corrected set is not
\* empty; in every other case the set handed to store_test_files is the generated set
\* exactly, and the generated set itself is never modified by the merge.
C27_MergeOnlyOnIssues ==
  /\ merged => MergeCalledFor
  /\ (mpc \in {"store", "done"} /\ ~MergeCalledFor) => final_files = replies.generated
  /\ PastGeneration => generated = replies.generated

\* ------------------------------------------------------------------ specifications
\* store_test_files, called once or twice on a disk
InitStore == StoreInit /\ ExtractIdle /\ GenIdle /\ ValIdle /\ MainIdle
SpecStore == InitStore /\ [][StoreNext]_vars

\* parse_analysis_response, called on a text
InitExtract == ExtractInit /\ StoreIdle /\ GenIdle /\ ValIdle /\ MainIdle
SpecExtract == InitExtract /\ [][ExtractNext]_vars

\* parse_generation_response, called on a text
InitGen == GenInit /\ StoreIdle /\ ExtractIdle /\ ValIdle /\ MainIdle
SpecGen == InitGen /\ [][GenNext]_vars

\* parse_validation_response, called on a text
InitVal == ValInit /\ StoreIdle /\ ExtractIdle /\ GenIdle /\ MainIdle
SpecVal == InitVal /\ [][ValNext]_vars

\* either file parser, called on a text
InitParsers == InitGen \/ InitVal
ParsersNext == GenNext \/ ValNext
SpecParsers == InitParsers /\ [][ParsersNext]_vars

\* main, given the replies of the agents as the parsers return them
InitMain == MainInit /\ StoreIdle /\ ExtractIdle /\ GenIdle /\ ValIdle
SpecMain == InitMain /\ [][MainNext]_vars

====
